---- MODULE Spec2Model ----
(***************************************************************************)
(* Model of the Wati trigger node's webhook handler                        *)
(* (nodes/Wati/WatiTrigger.node.ts): payload acquisition through the       *)
(* ordered fallback strategies, then event classification and emission.    *)
(*                                                                         *)
(* JavaScript values are modelled uniformly as records                     *)
(*   [kind, str, props]                                                    *)
(* kind  : "undefined" "null" "boolean" "number" "string" "buffer"         *)
(*         "object" "array" "function"                                     *)
(* str   : the text of a string, the bytes of a buffer, the literal of a   *)
(*         number or boolean                                               *)
(* props : the own enumerable properties of an object or array, a sequence *)
(*         of <<key, value>> pairs (array keys are the indices "0","1",..) *)
(***************************************************************************)
EXTENDS Integers, Sequences, FiniteSets, TLC

VARIABLES
    event,       \* the node parameter 'event' (the configured EventFilter)
    pc,          \* position of the handler
    req,         \* the request object of the delivery in progress
    headers,     \* this.getHeaderData()
    query,       \* this.getQueryData()
    body,        \* the local variable `body`
    result,      \* workflowData[0] of the returned IWebhookResponseData
    log,         \* which sources the handler has consulted, in order
    hist,        \* the value of `body` at the end of each strategy block
    call,        \* how many times webhook() has been invoked on `req`
    eventType,   \* the local constant `eventType` (undefined until computed)
    mappedEvent, \* the local constant `mappedEvent` (undefined until computed)
    inv,         \* concurrent deliveries: the activation record of each
    cell,        \* concurrent deliveries: the storage holding each `body`
    ex,          \* Wati.execute: the state of one execution
    url          \* base URL derivation: the apiUrl and the two results

\* The variables of one webhook() invocation.
triggerVars ==
    <<event, pc, req, headers, query, body, result, log, hist, call,
      eventType, mappedEvent>>

\* The variables the webhook() invocation of the sequential model never touches.
otherThanTrigger == <<inv, cell, ex, url>>

vars == <<triggerVars, otherThanTrigger>>

----------------------------------------------------------------------------
(* JavaScript values *)

JsVal(k, s, p) == [kind |-> k, str |-> s, props |-> p]

Undefined == JsVal("undefined", "", <<>>)
Null      == JsVal("null", "", <<>>)
Bool(s)   == JsVal("boolean", s, <<>>)
Num(s)    == JsVal("number", s, <<>>)
Str(s)    == JsVal("string", s, <<>>)
Buf(s)    == JsVal("buffer", s, <<>>)
Obj(p)    == JsVal("object", "", p)
Arr(p)    == JsVal("array", "", p)
JsFunction == JsVal("function", "", <<>>)

Prop(k, v) == <<k, v>>

\* ToBoolean
Truthy(v) ==
    CASE v.kind \in {"undefined", "null"} -> FALSE
      [] v.kind = "boolean" -> v.str = "true"
      [] v.kind = "number"  -> v.str \notin {"0", "NaN"}
      [] v.kind = "string"  -> v.str # ""
      [] OTHER -> TRUE

\* typeof v === 'object'
TypeofObject(v) == v.kind \in {"null", "object", "array", "buffer"}

\* Object.keys(v) raises a TypeError on undefined and null
ObjectKeysThrows(v) == v.kind \in {"undefined", "null"}

\* Object.keys(v).length for every other value
ObjectKeysLength(v) ==
    CASE v.kind \in {"object", "array"} -> Len(v.props)
      [] v.kind \in {"string", "buffer"} -> Len(v.str)
      [] OTHER -> 0

HasKey(v, k) == \E i \in 1..Len(v.props) : v.props[i][1] = k

\* v[k] for a property name k that is not an index
GetProp(v, k) ==
    IF v.kind = "object" /\ HasKey(v, k)
    THEN v.props[CHOOSE i \in 1..Len(v.props) : v.props[i][1] = k][2]
    ELSE Undefined

----------------------------------------------------------------------------
(* Texts, buffers and JSON decoding *)

\* The bytes a buffer can hold.  Every one but InvalidUtf8 is ASCII text.
InvalidUtf8     == "<0xFF>"
ReplacementChar == "<U+FFFD>"

\* Buffer.prototype.toString('utf-8'): ASCII bytes decode to themselves, a
\* byte that is not valid UTF-8 decodes to U+FFFD.
BufToString(b) == IF b.str = InvalidUtf8 THEN ReplacementChar ELSE b.str

TxtNull     == "null"
TxtNumber   == "5"
TxtString   == "\"abc\""
TxtEmptyObj == "{}"
TxtEmptyArr == "[]"
TxtMessage  == "{\"eventType\":\"message\"}"
TxtTwoRead  == "[{\"type\":\"messageRead\"},{\"type\":\"messageRead\"}]"
TxtPlain    == "status=ok"

ObjMessage == Obj(<<Prop("eventType", Str("message"))>>)
ObjRead    == Obj(<<Prop("type", Str("messageRead"))>>)
ArrTwoRead == Arr(<<Prop("0", ObjRead), Prop("1", ObjRead)>>)

\* The JSON texts of the model and the value each decodes to.
JsonTexts ==
    {TxtNull, TxtNumber, TxtString, TxtEmptyObj, TxtEmptyArr, TxtMessage, TxtTwoRead}

JsonValue(text) ==
    CASE text = TxtNull     -> Null
      [] text = TxtNumber   -> Num("5")
      [] text = TxtString   -> Str("abc")
      [] text = TxtEmptyObj -> Obj(<<>>)
      [] text = TxtEmptyArr -> Arr(<<>>)
      [] text = TxtMessage  -> ObjMessage
      [] text = TxtTwoRead  -> ArrTwoRead

\* Variant of ParseOrWrap that wraps without trying JSON.parse.
ParseOrWrapNeverParses(text) == Obj(<<Prop("rawData", Str(text))>>)

\* Variant of ParseOrWrap whose catch block discards the text.
ParseOrWrapDiscards(text) ==
    IF text \in JsonTexts THEN JsonValue(text) ELSE Obj(<<>>)

\* try { body = JSON.parse(text) } catch { body = { rawData: text } }
ParseOrWrap(text) ==
    IF text \in JsonTexts
    THEN JsonValue(text)
    ELSE Obj(<<Prop("rawData", Str(text))>>)

----------------------------------------------------------------------------
(* The inputs of a delivery *)

\* Outcome of this.getBodyData(): a value, or the call raises.
BodyDataThrows == JsVal("throws", "", <<>>)

ObjDelivered == Obj(<<Prop("eventType", Str("messageDelivered"))>>)
ObjVendor    == Obj(<<Prop("type", Str("unknownVendorEvent"))>>)
ObjWrapped   == Obj(<<Prop("json", ObjMessage)>>)
ObjPriority  == Obj(<<Prop("eventType", Str("messageRead")),
                      Prop("event", Str("messageReplied")),
                      Prop("type", Str("messageDelivered"))>>)
ObjEmptyFirst == Obj(<<Prop("eventType", Str("")),
                       Prop("event", Str("messageReplied")),
                       Prop("type", Str("messageDelivered"))>>)
ObjProto     == Obj(<<Prop("type", Str("toString"))>>)
ObjUpper     == Obj(<<Prop("eventType", Str("MessageRead"))>>)

ParsedBodies ==
    {BodyDataThrows, Undefined, Null, Str(TxtPlain), Buf(TxtMessage),
     Obj(<<>>), Arr(<<>>), ObjDelivered, ObjVendor, ObjWrapped, ArrTwoRead,
     ObjPriority, ObjEmptyFirst, ObjProto, ObjUpper}

\* What req.readRawBody is: not a function, a function that throws when
\* called, or a function whose promise rejects or resolves.
ReadRawBodyKinds == {"absent", "throws", "rejects", "resolves"}

\* Bytes the host may already have stored in req.rawBody.
RawBodyBytes ==
    {"", TxtNull, TxtNumber, TxtString, TxtEmptyObj, TxtEmptyArr, TxtMessage,
     TxtTwoRead, TxtPlain, InvalidUtf8}

\* Bytes still unread on the request stream when req.rawBody is not set.
StreamBytes == {"", TxtMessage, TxtPlain}

\* Values of req.body.
DirectBodies ==
    {Undefined, Str(""), Str(TxtMessage), Str(TxtPlain), Str(TxtNull),
     Buf(""), Buf(TxtMessage), Buf(InvalidUtf8), ObjDelivered}

\* The webhook is registered for POST only.
Methods == {"POST"}

ContentTypes == {Undefined, Str(""), Str("application/json")}

Queries == {Obj(<<>>), Obj(<<Prop("token", Str("t1"))>>)}

\* A request: either the host has stored req.rawBody and the stream is
\* consumed, or req.rawBody is unset and the stream still holds bytes.
Requests ==
    { [parsed |-> p, readRawBody |-> k, rawBody |-> Buf(r), stream |-> Buf(""),
       body |-> d, method |-> m] :
        p \in ParsedBodies, k \in ReadRawBodyKinds, r \in RawBodyBytes,
        d \in DirectBodies, m \in Methods }
    \cup
    { [parsed |-> p, readRawBody |-> k, rawBody |-> Undefined, stream |-> Buf(t),
       body |-> d, method |-> m] :
        p \in ParsedBodies, k \in ReadRawBodyKinds, t \in StreamBytes,
        d \in DirectBodies, m \in Methods }

NoRequest ==
    [parsed |-> Undefined, readRawBody |-> "absent", rawBody |-> Undefined,
     stream |-> Buf(""), body |-> Undefined, method |-> ""]

\* The options of the node parameter 'event'.
EventFilters ==
    {"all", "messageReceived", "newContactMessage", "sessionMessageSent",
     "templateMessageSent", "messageDelivered", "messageRead", "messageReplied",
     "templateMessageFailed"}

EventUnread == "<unread>"

----------------------------------------------------------------------------
(* The pieces of WatiTrigger.webhook *)

\* Variant of PreParsed with the typeof test negated.
PreParsedTypeofSlip(parsed) ==
    IF parsed # BodyDataThrows /\ Truthy(parsed) /\ ~TypeofObject(parsed)
    THEN parsed
    ELSE Obj(<<>>)

\* Strategy 1: the value of `body` after the first try block.
PreParsed(parsed) ==
    IF parsed # BodyDataThrows /\ Truthy(parsed) /\ TypeofObject(parsed)
       /\ parsed.kind # "buffer"
    THEN parsed
    ELSE Obj(<<>>)

\* v.length of a string or Buffer
Length(v) == IF v.kind = "buffer" /\ v.str = InvalidUtf8 THEN 1 ELSE Len(v.str)

\* Strategy 2, after the drain: the value of `body` given req.rawBody.
FromRawBody(b, rawBody) ==
    IF Truthy(rawBody) /\ Length(rawBody) > 0
    THEN ParseOrWrap(BufToString(rawBody))
    ELSE b

\* Variant of FromDirectBody that wraps the content without decoding it.
FromDirectBodyWrapsOnly(b, direct) ==
    IF ~Truthy(direct) THEN b
    ELSE IF direct.kind = "buffer"
    THEN Obj(<<Prop("rawData", Str(BufToString(direct)))>>)
    ELSE IF direct.kind = "string" /\ Length(direct) > 0
    THEN Obj(<<Prop("rawData", Str(direct.str))>>)
    ELSE b

\* Strategy 3: the value of `body` given req.body, once `body` has no keys.
FromDirectBody(b, direct) ==
    IF ~Truthy(direct) THEN b
    ELSE IF direct.kind = "buffer" THEN ParseOrWrap(BufToString(direct))
    ELSE IF direct.kind = "string" /\ Length(direct) > 0 THEN ParseOrWrap(direct.str)
    ELSE b

\* Variant of ContentTypeOrSentinel written with ?? in place of ||.
ContentTypeNullish(ct) ==
    IF ct.kind \in {"undefined", "null"} THEN Str("not set") ELSE ct

\* (headers['content-type'] as string) || 'not set'
ContentTypeOrSentinel(ct) == IF Truthy(ct) THEN ct ELSE Str("not set")

\* Strategy 4: the diagnostic record.
Diagnostic(hdrs, r, q) ==
    Obj(<<Prop("_webhookReceived", Bool("true")),
          Prop("_bodyEmpty", Bool("true")),
          Prop("_contentType", ContentTypeOrSentinel(hdrs)),
          Prop("_method", Str(r.method)),
          Prop("_query", q)>>)

\* req.readRawBody() of the host when its promise resolves: it reads the
\* stream into req.rawBody unless req.rawBody is already set.
Drained(r) ==
    IF Truthy(r.rawBody) THEN r
    ELSE [r EXCEPT !.rawBody = r.stream, !.stream = Buf("")]

----------------------------------------------------------------------------
(* Classification and emission *)

\* Variant of eventTypeMap without the entry for "message".
eventTypeMapWithoutMessage ==
    [k \in {"whatsappMessageReceived", "newContactMessage",
            "sessionMessageSent", "templateMessageSent", "messageDelivered",
            "messageRead", "messageReplied", "templateMessageFailed"} |->
        IF k = "whatsappMessageReceived" THEN "messageReceived" ELSE k]

eventTypeMap ==
    [k \in {"message", "whatsappMessageReceived", "newContactMessage",
            "sessionMessageSent", "templateMessageSent", "messageDelivered",
            "messageRead", "messageReplied", "templateMessageFailed"} |->
        IF k \in {"message", "whatsappMessageReceived"} THEN "messageReceived" ELSE k]

\* Property names every object literal inherits from Object.prototype.
ObjectPrototypeKeys ==
    {"constructor", "toString", "toLocaleString", "valueOf", "hasOwnProperty",
     "isPrototypeOf", "propertyIsEnumerable", "__proto__"}

\* Variant of RawEventType that looks at the keys in the opposite order.
RawEventTypeReversed(b) ==
    IF Truthy(GetProp(b, "type")) THEN GetProp(b, "type")
    ELSE IF Truthy(GetProp(b, "event")) THEN GetProp(b, "event")
    ELSE IF Truthy(GetProp(b, "eventType")) THEN GetProp(b, "eventType")
    ELSE Str("")

\* body.eventType || body.event || body.type || ''
RawEventType(b) ==
    IF Truthy(GetProp(b, "eventType")) THEN GetProp(b, "eventType")
    ELSE IF Truthy(GetProp(b, "event")) THEN GetProp(b, "event")
    ELSE IF Truthy(GetProp(b, "type")) THEN GetProp(b, "type")
    ELSE Str("")

\* The property key a value is converted to when used as an index.
RECURSIVE ToPropertyKey(_)
JoinFrom(a, i) ==
    LET RECURSIVE Join(_)
        Join(j) ==
            LET e == a.props[j][2]
                t == IF e.kind \in {"undefined", "null"} THEN "" ELSE ToPropertyKey(e)
            IN  IF j = Len(a.props) THEN t ELSE t \o "," \o Join(j + 1)
    IN  IF Len(a.props) = 0 THEN "" ELSE Join(i)

ToPropertyKey(v) ==
    CASE v.kind \in {"string", "number", "boolean"} -> v.str
      [] v.kind = "null" -> "null"
      [] v.kind = "undefined" -> "undefined"
      [] v.kind = "array" -> JoinFrom(v, 1)
      [] OTHER -> "[object Object]"

\* eventTypeMap[eventType] || eventType
MappedEvent(et) ==
    LET k == ToPropertyKey(et)
    IN  IF k \in DOMAIN eventTypeMap THEN Str(eventTypeMap[k])
        ELSE IF k \in ObjectPrototypeKeys THEN JsFunction
        ELSE et

\* Variant of Passes without the wildcard: 'all' is compared like any value.
PassesNoWildcard(b, ev) == MappedEvent(RawEventType(b)) = Str(ev)

\* String.prototype.toLowerCase on the event names of the model.
ToLowerCase(str) == IF str = "MessageRead" THEN "messageRead" ELSE str

\* Variant of Passes that compares without regard to case.
PassesIgnoringCase(b, ev) ==
    \/ ev = "all"
    \/ LET m == MappedEvent(RawEventType(b))
       IN  m.kind = "string" /\ ToLowerCase(m.str) = ToLowerCase(ev)

\* The delivery passes the filter: event === 'all' or mappedEvent === event
Passes(b, ev) == ev = "all" \/ MappedEvent(RawEventType(b)) = Str(ev)

\* this.helpers.returnJsonArray(body): one item per element of an array,
\* one item for anything else; an element that already has a json key is
\* not wrapped a second time.  An item is written as its json value.
ReturnJsonArray(b) ==
    LET elems == IF b.kind = "array"
                 THEN [i \in 1..Len(b.props) |-> b.props[i][2]]
                 ELSE <<b>>
    IN  [i \in 1..Len(elems) |->
            IF Truthy(GetProp(elems[i], "json"))
            THEN GetProp(elems[i], "json")
            ELSE elems[i]]

----------------------------------------------------------------------------
(* The handler, one action per step *)

\* Value of a variable that belongs to another part of the model.
Unused == <<>>

\* No webhook() invocation is in progress.
TriggerIdle ==
    /\ event = EventUnread
    /\ pc = "idle"
    /\ req = NoRequest
    /\ headers = Undefined
    /\ query = Obj(<<>>)
    /\ body = Obj(<<>>)
    /\ result = <<>>
    /\ log = <<>>
    /\ hist = <<>>
    /\ call = 1
    /\ eventType = Undefined
    /\ mappedEvent = Undefined

Init ==
    /\ TriggerIdle
    /\ inv = Unused
    /\ cell = Unused
    /\ ex = Unused
    /\ url = Unused

\* The host invokes webhook() for a delivery: getRequestObject,
\* getHeaderData, getQueryData, `let body = {}`.
Receive ==
    /\ pc = "idle"
    /\ \E r \in Requests, ct \in ContentTypes, q \in Queries :
        /\ req' = r
        /\ headers' = ct
        /\ query' = q
    /\ body' = Obj(<<>>)
    /\ event' = EventUnread
    /\ result' = <<>>
    /\ log' = <<>>
    /\ hist' = <<>>
    /\ call' = 1
    /\ eventType' = Undefined
    /\ mappedEvent' = Undefined
    /\ pc' = "getBodyData"
    /\ UNCHANGED otherThanTrigger

\* 1. getBodyData() inside try/catch, then the test guarding block 2.
GetBodyData ==
    /\ pc = "getBodyData"
    /\ body' = PreParsed(req.parsed)
    /\ log' = Append(log, "getBodyData")
    /\ IF ObjectKeysLength(body') = 0
       THEN /\ pc' = "readRawBody"
            /\ hist' = Append(hist, body')
       ELSE /\ pc' = "directBody"
            /\ hist' = hist \o <<body', body'>>
    /\ UNCHANGED <<event, req, headers, query, result, call, eventType, mappedEvent, otherThanTrigger>>

\* 2a. readRawBody is looked up and, when it is a function, called.
ReadRawBody ==
    /\ pc = "readRawBody"
    /\ IF req.readRawBody = "absent"
       THEN /\ pc' = "rawBody"
            /\ log' = log
       ELSE /\ log' = Append(log, "readRawBody")
            /\ pc' = IF req.readRawBody = "throws" THEN "rawBody" ELSE "await"
    /\ UNCHANGED <<event, req, headers, query, body, result, hist, call, eventType, mappedEvent, otherThanTrigger>>

\* Variant of Resume without the catch: a rejection escapes the handler.
ResumeRejectionEscapes ==
    /\ pc = "await"
    /\ req' = IF req.readRawBody = "resolves" THEN Drained(req) ELSE req
    /\ pc' = IF req.readRawBody = "resolves" THEN "rawBody" ELSE "threw"
    /\ UNCHANGED <<event, headers, query, body, result, log, hist, call, eventType, mappedEvent, otherThanTrigger>>

\* 2b. the awaited promise settles; a rejection is caught and ignored.
Resume ==
    /\ pc = "await"
    /\ req' = IF req.readRawBody = "resolves" THEN Drained(req) ELSE req
    /\ pc' = "rawBody"
    /\ UNCHANGED <<event, headers, query, body, result, log, hist, call, eventType, mappedEvent, otherThanTrigger>>

\* Variant of RawBody that calls readRawBody a second time when the first
\* call left req.rawBody without bytes.
RawBodyRetriesDrain ==
    /\ pc = "rawBody"
    /\ IF /\ ~(Truthy(req.rawBody) /\ Length(req.rawBody) > 0)
          /\ req.readRawBody # "absent"
          /\ Len(log) < 3
       THEN /\ pc' = "readRawBody"
            /\ UNCHANGED <<body, log, hist>>
       ELSE /\ body' = FromRawBody(body, req.rawBody)
            /\ log' = Append(log, "rawBody")
            /\ hist' = Append(hist, body')
            /\ pc' = "directBody"
    /\ UNCHANGED <<event, req, headers, query, result, call, eventType, mappedEvent, otherThanTrigger>>

\* 2c. req.rawBody is decoded or wrapped.
RawBody ==
    /\ pc = "rawBody"
    /\ body' = FromRawBody(body, req.rawBody)
    /\ log' = Append(log, "rawBody")
    /\ hist' = Append(hist, body')
    /\ pc' = "directBody"
    /\ UNCHANGED <<event, req, headers, query, result, call, eventType, mappedEvent, otherThanTrigger>>

\* Variant of DirectBody without the test that `body` has no keys.
DirectBodyUnguarded ==
    /\ pc = "directBody"
    /\ IF ObjectKeysThrows(body)
       THEN /\ pc' = "threw"
            /\ UNCHANGED <<body, log, hist>>
       ELSE /\ body' = FromDirectBody(body, req.body)
            /\ log' = Append(log, "req.body")
            /\ hist' = Append(hist, body')
            /\ pc' = "diagnostic"
    /\ UNCHANGED <<event, req, headers, query, result, call, eventType, mappedEvent, otherThanTrigger>>

\* 3. Object.keys(body).length === 0 && req.body
DirectBody ==
    /\ pc = "directBody"
    /\ IF ObjectKeysThrows(body)
       THEN /\ pc' = "threw"
            /\ UNCHANGED <<body, log, hist>>
       ELSE IF ObjectKeysLength(body) = 0
       THEN /\ body' = FromDirectBody(body, req.body)
            /\ log' = Append(log, "req.body")
            /\ hist' = Append(hist, body')
            /\ pc' = "diagnostic"
       ELSE /\ hist' = Append(hist, body)
            /\ pc' = "diagnostic"
            /\ UNCHANGED <<body, log>>
    /\ UNCHANGED <<event, req, headers, query, result, call, eventType, mappedEvent, otherThanTrigger>>

\* 4. the diagnostic record when body still has no keys
DiagnosticFallback ==
    /\ pc = "diagnostic"
    /\ IF ObjectKeysThrows(body)
       THEN /\ pc' = "threw"
            /\ UNCHANGED <<body, log, hist>>
       ELSE IF ObjectKeysLength(body) = 0
       THEN /\ body' = Diagnostic(headers, req, query)
            /\ log' = Append(log, "diagnostic")
            /\ hist' = Append(hist, body')
            /\ pc' = "classify"
       ELSE /\ hist' = Append(hist, body)
            /\ pc' = "classify"
            /\ UNCHANGED <<body, log>>
    /\ UNCHANGED <<event, req, headers, query, result, call, eventType, mappedEvent, otherThanTrigger>>

\* getNodeParameter('event'), the filter, and the returned workflowData
Classify ==
    /\ pc = "classify"
    /\ \E ev \in EventFilters :
        /\ event' = ev
        /\ eventType' = IF ev # "all" THEN RawEventType(body) ELSE Undefined
        /\ mappedEvent' = IF ev # "all" THEN MappedEvent(RawEventType(body)) ELSE Undefined
        /\ result' = IF Passes(body, ev) THEN ReturnJsonArray(body) ELSE <<>>
    /\ pc' = "done"
    /\ UNCHANGED <<req, headers, query, body, log, hist, call, otherThanTrigger>>

\* The returned promise has settled (resolved with the result, or rejected
\* with the exception that escaped); the invocation is over.
Settle ==
    /\ pc \in {"done", "threw"}
    /\ pc' = "idle"
    /\ event' = EventUnread
    /\ req' = NoRequest
    /\ headers' = Undefined
    /\ query' = Obj(<<>>)
    /\ body' = Obj(<<>>)
    /\ result' = <<>>
    /\ log' = <<>>
    /\ hist' = <<>>
    /\ call' = 1
    /\ eventType' = Undefined
    /\ mappedEvent' = Undefined
    /\ UNCHANGED otherThanTrigger

Next ==
    \/ Receive
    \/ GetBodyData
    \/ ReadRawBody
    \/ Resume
    \/ RawBody
    \/ DirectBody
    \/ DiagnosticFallback
    \/ Classify
    \/ Settle

Spec == Init /\ [][Next]_vars

----------------------------------------------------------------------------
(* Properties of the handler *)

Finished == pc \in {"done", "threw"}

\* Strategy 1 left `body` without keys.
PreParsedYieldedNothing == Len(hist) >= 1 /\ ObjectKeysLength(hist[1]) = 0

\* C1: no exception raised while acquiring or classifying the body escapes
\* webhook(): the handler always returns a result.
C1_NoExceptionEscapes == pc # "threw"

\* C2: a delivery for which no strategy recovered a body (the diagnostic
\* record was built) emits exactly one item, the diagnostic record, whatever
\* the configured event filter is.
C2_DiagnosticAlwaysEmitted ==
    (pc = "done" /\ \E i \in 1..Len(log) : log[i] = "diagnostic")
        => result = <<Diagnostic(headers, req, query)>>

\* C3: a delivery emits exactly one item, the resolved body as it is, when
\* it passes the filter and no item when it is rejected; never more than one.
C3_AtMostOneItem ==
    pc = "done" =>
        /\ Len(result) <= 1
        /\ Passes(body, event) => result = <<body>>
        /\ ~Passes(body, event) => result = <<>>

\* C4: when the body is classified and emitted it is a mapping (never null,
\* never an array or a scalar) with at least one key.
C4_BodyIsNonEmptyMapping ==
    pc \in {"classify", "done"} => body.kind = "object" /\ Len(body.props) >= 1

HasKeys(v) == ~ObjectKeysThrows(v) /\ ObjectKeysLength(v) > 0

Consulted(src) == \E i \in 1..Len(log) : log[i] = src

\* req.rawBody holds at least one byte (read once the drain is over).
RawBodyHasBytes == req.rawBody.kind = "buffer" /\ Length(req.rawBody) > 0

\* C5 as stated: a pre-parsed JSON object, the object without keys
\* included, is the acquired body whatever rawBody and req.body hold.
C5_AnyParsedObjectIsBody ==
    (pc \in {"classify", "done"} /\ req.parsed.kind = "object")
        => body = req.parsed

\* C5 (amended): a pre-parsed JSON object with at least one key is the
\* acquired body exactly, whatever rawBody and req.body hold.
C5_ParsedObjectWithKeysIsBody ==
    (pc \in {"directBody", "diagnostic", "classify", "done"}
     /\ req.parsed.kind = "object" /\ Len(req.parsed.props) >= 1)
        => body = req.parsed

C5_Witness ==
    /\ pc = "done"
    /\ req.parsed = ObjDelivered
    /\ req.rawBody = Buf(TxtMessage)
    /\ req.body = Str(TxtPlain)
    /\ body = ObjDelivered

\* C6 as stated: with nothing pre-parsed and valid JSON text only in
\* rawBody, the acquired body is the decoded value for every JSON text.
C6_AnyDecodedJsonIsBody ==
    (Finished /\ PreParsedYieldedNothing /\ req.body = Undefined
     /\ RawBodyHasBytes /\ BufToString(req.rawBody) \in JsonTexts)
        => (pc = "done" /\ body = JsonValue(BufToString(req.rawBody)))

\* C6 (amended): with nothing pre-parsed and valid JSON text in rawBody
\* that decodes to a value with at least one key (a non-empty object, array
\* or string), the acquired body is the decoded value; a decoded value
\* without keys other than null is treated as no body and req.body is
\* consulted next.
C6_DecodedJsonWithKeysIsBody ==
    (pc \in {"diagnostic", "classify", "done", "threw"} /\ PreParsedYieldedNothing
     /\ RawBodyHasBytes /\ BufToString(req.rawBody) \in JsonTexts)
        => LET v == JsonValue(BufToString(req.rawBody))
           IN  /\ HasKeys(v) => (pc # "threw" /\ body = v /\ ~Consulted("req.body"))
               /\ (~HasKeys(v) /\ v # Null) => Consulted("req.body")

C6_Witness ==
    /\ pc = "done"
    /\ req.parsed = Undefined
    /\ req.readRawBody = "resolves"
    /\ Consulted("readRawBody")
    /\ req.rawBody = Buf(TxtMessage)
    /\ req.body = Undefined
    /\ body = ObjMessage

\* The raw content of the request: the bytes of rawBody when it has any,
\* otherwise a string or Buffer held by req.body.
RawContentText ==
    IF RawBodyHasBytes THEN BufToString(req.rawBody)
    ELSE IF req.body.kind = "buffer" THEN BufToString(req.body)
    ELSE IF req.body.kind = "string" THEN req.body.str
    ELSE ""

\* C7: with nothing pre-parsed and raw content that is text but not valid
\* JSON, the acquired body is { rawData: <that text> }, the text unchanged.
C7_NonJsonTextIsWrapped ==
    (pc \in {"diagnostic", "classify", "done", "threw"} /\ PreParsedYieldedNothing
     /\ RawContentText # "" /\ RawContentText \notin JsonTexts)
        => (pc # "threw" /\ body = Obj(<<Prop("rawData", Str(RawContentText))>>))

C7_Witness ==
    /\ pc = "done"
    /\ PreParsedYieldedNothing
    /\ ~RawBodyHasBytes
    /\ req.body = Buf(InvalidUtf8)
    /\ body = Obj(<<Prop("rawData", Str(ReplacementChar))>>)

\* Each of the three strategies left `body` without keys.
NoBodyDiscovered ==
    /\ Len(hist) >= 3
    /\ \A i \in 1..3 : ~ObjectKeysThrows(hist[i]) /\ ObjectKeysLength(hist[i]) = 0

\* C8: when none of the three strategies found a body, the acquired body is
\* the diagnostic record: _webhookReceived and _bodyEmpty are true,
\* _contentType is the content-type header or 'not set' when the header is
\* absent or empty, _method is the request method, _query the query.
C8_DiagnosticRecord ==
    (pc \in {"classify", "done"} /\ NoBodyDiscovered)
        => /\ body.kind = "object"
           /\ GetProp(body, "_webhookReceived") = Bool("true")
           /\ GetProp(body, "_bodyEmpty") = Bool("true")
           /\ GetProp(body, "_contentType") =
                 (IF headers \in {Undefined, Str("")} THEN Str("not set") ELSE headers)
           /\ GetProp(body, "_method") = Str(req.method)
           /\ GetProp(body, "_query") = query
           /\ Len(body.props) = 5

C8_Witness ==
    /\ pc = "done"
    /\ NoBodyDiscovered
    /\ headers = Str("")
    /\ query = Obj(<<Prop("token", Str("t1"))>>)
    /\ GetProp(body, "_contentType") = Str("not set")

\* Position of a source in the fixed order of the strategies.
StrategyRank(src) ==
    CASE src = "getBodyData" -> 1
      [] src = "readRawBody" -> 2
      [] src = "rawBody"     -> 3
      [] src = "req.body"    -> 4
      [] src = "diagnostic"  -> 5

\* C9: the sources are consulted in the fixed order pre-parsed body, stream
\* drain, rawBody, req.body, diagnostic record, and a later one only when
\* every earlier strategy left the body without keys; a pre-parsed object
\* with keys means no drain and no look at rawBody or req.body.
C9_StrategiesInOrder ==
    /\ \A i, j \in 1..Len(log) : i < j => StrategyRank(log[i]) < StrategyRank(log[j])
    /\ (Consulted("readRawBody") \/ Consulted("rawBody"))
         => ObjectKeysLength(hist[1]) = 0
    /\ Consulted("req.body")
         => (ObjectKeysLength(hist[1]) = 0 /\ ~HasKeys(hist[2]))
    /\ Consulted("diagnostic")
         => (ObjectKeysLength(hist[1]) = 0 /\ ~HasKeys(hist[2]) /\ ~HasKeys(hist[3]))
    /\ (pc \notin {"idle", "getBodyData"} /\ HasKeys(req.parsed) /\ req.parsed.kind = "object")
         => log = <<"getBodyData">>
    /\ (pc \in {"diagnostic", "classify", "done"} /\ PreParsedYieldedNothing /\ HasKeys(hist[2]))
         => ~Consulted("req.body")

C9_Witness ==
    /\ pc = "done"
    /\ log = <<"getBodyData", "readRawBody", "rawBody", "req.body", "diagnostic">>
    /\ req.body = ObjDelivered

\* What the handler does from the rawBody step on when `body` has no keys
\* and req.rawBody is r.rawBody: the exception escapes or this body results.
OutcomeFromRawBody(r, hdrs, q) ==
    LET b2 == FromRawBody(Obj(<<>>), r.rawBody)
        b3 == IF ObjectKeysLength(b2) = 0 THEN FromDirectBody(b2, r.body) ELSE b2
    IN  IF ObjectKeysThrows(b2) \/ ObjectKeysThrows(b3)
        THEN [threw |-> TRUE, body |-> Null]
        ELSE [threw |-> FALSE,
              body |-> IF ObjectKeysLength(b3) = 0 THEN Diagnostic(hdrs, r, q) ELSE b3]

\* The final outcome after a drain that failed or was not possible.
C10_Outcome ==
    (Finished /\ PreParsedYieldedNothing /\ req.readRawBody # "resolves")
        => LET o == OutcomeFromRawBody(req, headers, query)
           IN  /\ Consulted("rawBody")
               /\ (pc = "threw") = o.threw
               /\ pc = "done" => body = o.body

\* The step over the drain leaves the request and the body as they are.
C10_DrainStep ==
    (pc \in {"readRawBody", "await"} /\ req.readRawBody # "resolves")
        => (req' = req /\ body' = body /\ pc' \in {"await", "rawBody"})

\* C10: when strategy 1 yielded nothing and readRawBody is absent, throws or
\* rejects, the failure is swallowed: the handler goes on to rawBody as it
\* stands, then req.body, then the diagnostic record, exactly as if the
\* drain had done nothing.
C10_DrainFailureSwallowed == []C10_Outcome /\ [][C10_DrainStep]_vars

C10_Witness ==
    /\ pc = "done"
    /\ PreParsedYieldedNothing
    /\ req.readRawBody = "rejects"
    /\ Consulted("readRawBody")
    /\ req.rawBody = Undefined
    /\ req.stream = Buf(TxtMessage)
    /\ req.body = Str(TxtPlain)
    /\ body = Obj(<<Prop("rawData", Str(TxtPlain))>>)

----------------------------------------------------------------------------
(* The drain, repeated invocation *)

\* How many times the handler consulted a source during this invocation.
TimesConsulted(src) == Cardinality({i \in 1..Len(log) : log[i] = src})

\* C11: within one delivery readRawBody is invoked at most once, on every
\* path through the handler.
C11_DrainedAtMostOnce == TimesConsulted("readRawBody") <= 1

C11_Witness ==
    /\ pc = "done"
    /\ TimesConsulted("readRawBody") = 1
    /\ req.readRawBody = "resolves"
    /\ req.rawBody = Buf("")
    /\ Consulted("diagnostic")

\* webhook() is invoked a second time on the same request object, whatever
\* the first invocation left on it.
Reinvoke ==
    /\ pc \in {"done", "threw"}
    /\ call = 1
    /\ call' = 2
    /\ pc' = "getBodyData"
    /\ body' = Obj(<<>>)
    /\ event' = EventUnread
    /\ result' = <<>>
    /\ log' = <<>>
    /\ hist' = <<>>
    /\ eventType' = Undefined
    /\ mappedEvent' = Undefined
    /\ UNCHANGED <<req, headers, query, otherThanTrigger>>

NextTwice ==
    \/ Receive
    \/ GetBodyData
    \/ ReadRawBody
    \/ Resume
    \/ RawBody
    \/ DirectBody
    \/ DiagnosticFallback
    \/ Classify
    \/ Reinvoke
    \/ Settle

SpecTwice == Init /\ [][NextTwice]_vars

\* The stream of the request has been read to its end.
StreamDrained == pc # "idle" /\ req.stream = Buf("")

\* Nothing is cached on the request: no parsed body, no rawBody, no req.body.
NoBodyCached ==
    /\ ObjectKeysLength(PreParsed(req.parsed)) = 0
    /\ ~RawBodyHasBytes
    /\ ~Truthy(req.body)

\* C12: two invocations on the same request whose stream is already drained
\* never raise, and the second yields the diagnostic record when no body is
\* cached on the request.
C12_TwiceOnDrainedStream ==
    /\ StreamDrained => pc # "threw"
    /\ (StreamDrained /\ call = 2 /\ pc \in {"classify", "done"} /\ NoBodyCached)
          => body = Diagnostic(headers, req, query)

\* The part of C12 about a request with nothing cached on it.
TwiceWithNothingCached ==
    (StreamDrained /\ NoBodyCached)
        => /\ pc # "threw"
           /\ (call = 2 /\ pc \in {"classify", "done"})
                 => body = Diagnostic(headers, req, query)

----------------------------------------------------------------------------
(* Classification *)

Classified == pc = "done" /\ event # "all"

\* C13: with the filter "all" every body passes: the result carries the
\* body and is never the empty collection.
C13_AllPassesEverything ==
    (pc = "done" /\ event = "all")
        => /\ Len(result) >= 1
           /\ (body.kind # "array" /\ ~HasKey(body, "json")) => result = <<body>>
           /\ body.kind = "array" => Len(result) = Len(body.props)

C13_Witness ==
    /\ pc = "done"
    /\ event = "all"
    /\ Consulted("diagnostic")
    /\ result = <<body>>

\* The category the event-type table gives a raw event-type string.
CategoryOf(raw) ==
    IF raw \in {"message", "whatsappMessageReceived"} THEN "messageReceived" ELSE raw

\* C14: with a filter other than "all" the delivery passes if and only if
\* the effective category equals the filter exactly, case included.
C14_PassIffCategoryEqualsFilter ==
    Classified =>
        /\ (result # <<>>) <=> (mappedEvent = Str(event))
        /\ (result # <<>>) <=>
              (eventType.kind = "string" /\ CategoryOf(eventType.str) = event)

C14_Witness ==
    /\ pc = "done"
    /\ body = ObjUpper
    /\ event = "messageRead"
    /\ result = <<>>

\* The first of the keys eventType, event, type that holds a non-empty string.
FirstNonEmpty(b) ==
    LET ks == <<"eventType", "event", "type">>
        held == {i \in 1..3 : /\ b.kind = "object"
                              /\ HasKey(b, ks[i])
                              /\ GetProp(b, ks[i]) # Str("")}
    IN  IF held = {} THEN Str("")
        ELSE GetProp(b, ks[CHOOSE i \in held : \A j \in held : i <= j])

\* C15: the raw event type is the value of the first of eventType, event,
\* type that holds a non-empty value, even when a later key holds a value
\* that matches the filter, and the empty string when none does.
C15_KeyPriority ==
    Classified =>
        /\ eventType = FirstNonEmpty(body)
        /\ (result # <<>>) <=> (CategoryOf(FirstNonEmpty(body).str) = event)

C15_Witness ==
    /\ pc = "done"
    /\ body = ObjPriority
    /\ event = "messageDelivered"
    /\ eventType = Str("messageRead")
    /\ result = <<>>

\* C16: a raw event-type string without an entry in the table is its own
\* effective category, so a delivery whose raw type equals the filter passes.
C16_UnmappedIsItself ==
    (Classified /\ eventType.kind = "string" /\ eventType.str \notin DOMAIN eventTypeMap)
        => /\ mappedEvent = eventType
           /\ eventType = Str(event) => result # <<>>

\* The nine upstream event names of the table.
UpstreamEventNames ==
    {"message", "whatsappMessageReceived", "newContactMessage", "sessionMessageSent",
     "templateMessageSent", "messageDelivered", "messageRead", "messageReplied",
     "templateMessageFailed"}

\* C17: the table has exactly the nine entries, message and
\* whatsappMessageReceived giving messageReceived and the other seven
\* themselves; every filter other than "all" is the category of some entry;
\* a delivery of raw type "message" passes the filter messageReceived.
C17_EventTypeTable ==
    /\ DOMAIN eventTypeMap = UpstreamEventNames
    /\ \A k \in UpstreamEventNames : eventTypeMap[k] = CategoryOf(k)
    /\ \A f \in EventFilters \ {"all"} : \E k \in DOMAIN eventTypeMap : eventTypeMap[k] = f
    /\ (Classified /\ eventType.kind = "string" /\ eventType.str \in UpstreamEventNames)
          => mappedEvent = Str(CategoryOf(eventType.str))
    /\ (Classified /\ eventType = Str("message") /\ event = "messageReceived")
          => result # <<>>

C17_Witness ==
    /\ pc = "done"
    /\ body = ObjMessage
    /\ event = "messageReceived"
    /\ eventType = Str("message")
    /\ mappedEvent = Str("messageReceived")
    /\ result = <<ObjMessage>>

----------------------------------------------------------------------------
(* Concurrent deliveries.  The host may call webhook() again while an
   earlier call is suspended at `await readRawBody()`; everything between
   two awaits runs without interruption. *)

NumDeliveries == 2

Deliveries == 1..NumDeliveries

\* The requests and filters of the concurrent model.
ConcRequests ==
    { r \in Requests :
        /\ r.parsed \in {Undefined, ObjDelivered}
        /\ r.readRawBody \in {"absent", "rejects", "resolves"}
        /\ \/ r.rawBody = Undefined /\ r.stream = Buf(TxtMessage)
           \/ r.rawBody = Buf(TxtNull)
        /\ r.body \in {Undefined, Str(TxtPlain)} }

ConcFilters == {"all", "messageReceived"}

ConcHeaders == Str("application/json")

ConcQuery == Obj(<<>>)

\* Variant of BodyCell: `body` declared once, outside webhook().
BodyCellShared(d) == 1

\* The storage that holds `body` for the activation of delivery d: `body` is
\* declared with let inside webhook(), one variable per call.
BodyCell(d) == d

\* Lines 329-356 on a body b: the exception escapes, or this body results.
AfterRawBody(b, r, hdrs, q) ==
    IF ObjectKeysThrows(b) THEN [threw |-> TRUE, body |-> b]
    ELSE LET b3 == IF ObjectKeysLength(b) = 0 THEN FromDirectBody(b, r.body) ELSE b
         IN  IF ObjectKeysThrows(b3) THEN [threw |-> TRUE, body |-> b3]
             ELSE [threw |-> FALSE,
                   body |-> IF ObjectKeysLength(b3) = 0 THEN Diagnostic(hdrs, r, q) ELSE b3]

\* Lines 358-390: the returned workflowData[0].
Emitted(b, ev) == IF Passes(b, ev) THEN ReturnJsonArray(b) ELSE <<>>

\* The activation record once the handler has run from line 319 or 329 to
\* its end with body b.
RunToEnd(rec, b) ==
    LET o == AfterRawBody(b, rec.req, rec.headers, rec.query)
    IN  [rec EXCEPT !.pc = IF o.threw THEN "threw" ELSE "done",
                    !.result = IF o.threw THEN <<>> ELSE Emitted(o.body, rec.event)]

\* The value `body` ends with, for the same run.
BodyAtEnd(rec, b) == AfterRawBody(b, rec.req, rec.headers, rec.query).body

IdleInvocation ==
    [pc |-> "idle", input |-> NoRequest, req |-> NoRequest, headers |-> Undefined,
     query |-> Obj(<<>>), event |-> EventUnread, result |-> <<>>]

InitConcurrent ==
    /\ TriggerIdle
    /\ inv = [d \in Deliveries |-> IdleInvocation]
    /\ cell = [d \in Deliveries |-> Obj(<<>>)]
    /\ ex = Unused
    /\ url = Unused

\* webhook() is called for delivery d and runs to its first await, or to
\* its end when it does not await.
ConcStart(d) ==
    /\ inv[d].pc = "idle"
    /\ \E r \in ConcRequests, ev \in ConcFilters :
        LET rec == [pc |-> "await", input |-> r, req |-> r, headers |-> ConcHeaders,
                    query |-> ConcQuery, event |-> ev, result |-> <<>>]
            b1  == PreParsed(r.parsed)
        IN  IF ObjectKeysLength(b1) > 0
            THEN /\ inv' = [inv EXCEPT ![d] = RunToEnd(rec, b1)]
                 /\ cell' = [cell EXCEPT ![BodyCell(d)] = BodyAtEnd(rec, b1)]
            ELSE IF r.readRawBody \in {"absent", "throws"}
            THEN /\ inv' = [inv EXCEPT ![d] = RunToEnd(rec, FromRawBody(b1, r.rawBody))]
                 /\ cell' = [cell EXCEPT ![BodyCell(d)] =
                                BodyAtEnd(rec, FromRawBody(b1, r.rawBody))]
            ELSE /\ inv' = [inv EXCEPT ![d] = rec]
                 /\ cell' = [cell EXCEPT ![BodyCell(d)] = b1]
    /\ UNCHANGED <<triggerVars, ex, url>>

\* The promise delivery d awaits settles and the handler runs to its end.
ConcResume(d) ==
    /\ inv[d].pc = "await"
    /\ LET r   == IF inv[d].req.readRawBody = "resolves"
                  THEN Drained(inv[d].req) ELSE inv[d].req
           rec == [inv[d] EXCEPT !.req = r]
           b2  == FromRawBody(cell[BodyCell(d)], r.rawBody)
       IN  /\ inv' = [inv EXCEPT ![d] = RunToEnd(rec, b2)]
           /\ cell' = [cell EXCEPT ![BodyCell(d)] = BodyAtEnd(rec, b2)]
    /\ UNCHANGED <<triggerVars, ex, url>>

\* The host has taken the outcome of delivery d.
ConcSettle(d) ==
    /\ inv[d].pc \in {"done", "threw"}
    /\ inv' = [inv EXCEPT ![d] = IdleInvocation]
    /\ UNCHANGED <<triggerVars, cell, ex, url>>

NextConcurrent ==
    \/ \E d \in Deliveries : ConcStart(d)
    \/ \E d \in Deliveries : ConcResume(d)
    \/ \E d \in Deliveries : ConcSettle(d)

SpecConcurrent == InitConcurrent /\ [][NextConcurrent]_vars

\* What webhook() returns for a request and a filter when it runs alone:
\* whether it raises, and the items it emits.
Alone(r, hdrs, q, ev) ==
    LET b1 == PreParsed(r.parsed)
        r2 == IF ObjectKeysLength(b1) = 0 /\ r.readRawBody = "resolves"
              THEN Drained(r) ELSE r
        b2 == IF ObjectKeysLength(b1) = 0 THEN FromRawBody(b1, r2.rawBody) ELSE b1
        o  == AfterRawBody(b2, r2, hdrs, q)
    IN  [threw |-> o.threw,
         result |-> IF o.threw THEN <<>> ELSE Emitted(o.body, ev)]

\* C18: under every interleaving of concurrent deliveries each delivery's
\* outcome is the one it has when processed alone, a function of its own
\* request and filter only.
C18_DeliveriesIndependent ==
    \A d \in Deliveries :
        inv[d].pc \in {"done", "threw"} =>
            LET a == Alone(inv[d].input, inv[d].headers, inv[d].query, inv[d].event)
            IN  /\ (inv[d].pc = "threw") = a.threw
                /\ inv[d].result = a.result

\* Delivery 1 is suspended at the await, with nothing cached on its request,
\* while delivery 2 has run to its end with a body of its own.
C18_Witness ==
    /\ inv[1].pc = "await"
    /\ inv[1].input.readRawBody = "rejects"
    /\ inv[1].input.rawBody = Undefined
    /\ inv[1].input.body = Undefined
    /\ cell[1] = Obj(<<>>)
    /\ inv[2].pc = "done"
    /\ inv[2].input.parsed = ObjDelivered
    /\ inv[2].event = "all"
    /\ inv[2].result = <<ObjDelivered>>
    /\ cell[2] = ObjDelivered

----------------------------------------------------------------------------
(* Wati.execute: one pass over the input items *)

MaxItems == 3

MaxArray == 2

Resources == {"message", "templateMessage", "contact"}

Operations ==
    {"sendTextMessage", "sendInteractiveButtons", "sendInteractiveList",
     "getMessages", "getMedia", "sendTemplateMessage", "getTemplates",
     "getContacts", "getContactDetail", "addContact"}

\* The (resource, operation) pairs the if/else chain of execute has a branch for.
Implemented(resource, operation) ==
    \/ resource = "message" /\ operation \in
          {"sendTextMessage", "sendInteractiveButtons", "sendInteractiveList",
           "getMessages", "getMedia"}
    \/ resource = "templateMessage" /\ operation \in {"sendTemplateMessage", "getTemplates"}
    \/ resource = "contact" /\ operation \in {"getContacts", "getContactDetail", "addContact"}

\* What the awaited httpRequestWithAuthentication call can do: reject, or
\* resolve with nothing, an object, or an array of up to MaxArray elements.
HttpOutcomes ==
    {[kind |-> "rejects", len |-> 0], [kind |-> "undefined", len |-> 0],
     [kind |-> "object", len |-> 1]}
    \cup {[kind |-> "array", len |-> k] : k \in 0..MaxArray}

\* For getMedia: the request rejects, or it resolves and the code after it
\* (reading the headers, prepareBinaryData) succeeds or raises.
MediaOutcomes ==
    {[kind |-> "rejects", len |-> 0], [kind |-> "binary", len |-> 1],
     [kind |-> "raisesAfter", len |-> 0]}

ExIdle ==
    [pc |-> "idle", n |-> 0, i |-> 0, resource |-> "", operation |-> "",
     continueOnFail |-> FALSE, returnData |-> <<>>, http |-> <<>>, itemIndex |-> -1,
     settled |-> <<>>, caught |-> <<>>, output |-> <<>>]

InitExecute ==
    /\ TriggerIdle
    /\ inv = Unused
    /\ cell = Unused
    /\ ex = ExIdle
    /\ url = Unused

\* The record of how the request for item i settled.
Settled(i, out) == [item |-> i, kind |-> out.kind, len |-> out.len]

\* k output items of one kind, all paired with input item i.
ItemsFor(kind, i, k) == [j \in 1..k |-> [kind |-> kind, item |-> i]]

\* Variant of Caught whose error item replaces the results collected so far.
CaughtDropsEarlier(e) ==
    IF e.continueOnFail
    THEN [e EXCEPT !.returnData = <<[kind |-> "error", item |-> e.i]>>,
                   !.caught = Append(e.caught, e.i),
                   !.i = e.i + 1,
                   !.pc = "loop"]
    ELSE [e EXCEPT !.caught = Append(e.caught, e.i),
                   !.pc = "failed", !.itemIndex = e.i]

\* Variant of Caught that records the error and goes on whatever
\* continueOnFail says.
CaughtAlwaysContinues(e) ==
    [e EXCEPT !.returnData = Append(e.returnData, [kind |-> "error", item |-> e.i]),
              !.caught = Append(e.caught, e.i),
              !.i = e.i + 1,
              !.pc = "loop"]

\* The catch block of the loop body for item i.
Caught(e) ==
    IF e.continueOnFail
    THEN [e EXCEPT !.returnData = Append(e.returnData, [kind |-> "error", item |-> e.i]),
                   !.caught = Append(e.caught, e.i),
                   !.i = e.i + 1,
                   !.pc = "loop"]
    ELSE [e EXCEPT !.caught = Append(e.caught, e.i),
                   !.pc = "failed", !.itemIndex = e.i]

\* execute() is called: getInputData, the resource and operation parameters,
\* the credentials and the base URL.
ExecStart ==
    /\ ex.pc = "idle"
    /\ \E n \in 0..MaxItems, r \in Resources, o \in Operations, c \in BOOLEAN :
        ex' = [ExIdle EXCEPT !.pc = "loop", !.n = n, !.resource = r,
                             !.operation = o, !.continueOnFail = c]
    /\ UNCHANGED <<triggerVars, inv, cell, url>>

\* Variant of ExecItem that raises an error for a pair without a branch.
ExecItemReportsUnknown ==
    /\ ex.pc = "loop"
    /\ ex.i < ex.n
    /\ IF ~Implemented(ex.resource, ex.operation)
       THEN ex' = Caught(ex)
       ELSE \/ ex' = Caught(ex)
            \/ ex' = [ex EXCEPT !.pc = "http", !.http = Append(ex.http, ex.i)]
    /\ UNCHANGED <<triggerVars, inv, cell, url>>

\* The loop body for item i up to the await of the HTTP request: no branch
\* for the pair, or the parameters are read (which may raise) and the
\* request is issued.
ExecItem ==
    /\ ex.pc = "loop"
    /\ ex.i < ex.n
    /\ IF ~Implemented(ex.resource, ex.operation)
       THEN ex' = [ex EXCEPT !.i = ex.i + 1]
       ELSE \/ ex' = Caught(ex)
            \/ ex' = [ex EXCEPT !.pc = "http", !.http = Append(ex.http, ex.i)]
    /\ UNCHANGED <<triggerVars, inv, cell, url>>

\* Variant of ExecResponse that pushes an array response as one item.
ExecResponseArrayAsOne ==
    /\ ex.pc = "http"
    /\ \E out \in IF ex.operation = "getMedia" THEN MediaOutcomes ELSE HttpOutcomes :
        IF out.kind \in {"rejects", "raisesAfter"}
        THEN ex' = Caught([ex EXCEPT !.settled = Append(ex.settled, Settled(ex.i, out))])
        ELSE ex' = [ex EXCEPT
                      !.settled = Append(ex.settled, Settled(ex.i, out)),
                      !.returnData = ex.returnData \o
                          ItemsFor(IF out.kind = "binary" THEN "binary" ELSE "json",
                                   ex.i, IF out.kind = "undefined" THEN 0 ELSE 1),
                      !.i = ex.i + 1,
                      !.pc = "loop"]
    /\ UNCHANGED <<triggerVars, inv, cell, url>>

\* Variant of ExecResponse that issues the request a second time when the
\* first attempt is rejected.
ExecResponseRetries ==
    /\ ex.pc = "http"
    /\ \E out \in IF ex.operation = "getMedia" THEN MediaOutcomes ELSE HttpOutcomes :
        IF out.kind = "rejects"
           /\ (Len(ex.http) = 1 \/ ex.http[Len(ex.http) - 1] # ex.i)
        THEN ex' = [ex EXCEPT !.http = Append(ex.http, ex.i)]
        ELSE IF out.kind \in {"rejects", "raisesAfter"}
        THEN ex' = Caught([ex EXCEPT !.settled = Append(ex.settled, Settled(ex.i, out))])
        ELSE ex' = [ex EXCEPT
                      !.settled = Append(ex.settled, Settled(ex.i, out)),
                      !.returnData = ex.returnData \o
                          ItemsFor(IF out.kind = "binary" THEN "binary" ELSE "json",
                                   ex.i, out.len),
                      !.i = ex.i + 1,
                      !.pc = "loop"]
    /\ UNCHANGED <<triggerVars, inv, cell, url>>

\* The awaited request settles; the response is pushed to returnData, or
\* the error goes to the catch block.
ExecResponse ==
    /\ ex.pc = "http"
    /\ \E out \in IF ex.operation = "getMedia" THEN MediaOutcomes ELSE HttpOutcomes :
        IF out.kind \in {"rejects", "raisesAfter"}
        THEN ex' = Caught([ex EXCEPT !.settled = Append(ex.settled, Settled(ex.i, out))])
        ELSE ex' = [ex EXCEPT
                      !.settled = Append(ex.settled, Settled(ex.i, out)),
                      !.returnData = ex.returnData \o
                          ItemsFor(IF out.kind = "binary" THEN "binary" ELSE "json",
                                   ex.i, out.len),
                      !.i = ex.i + 1,
                      !.pc = "loop"]
    /\ UNCHANGED <<triggerVars, inv, cell, url>>

\* The loop is over: return [returnData].
ExecReturn ==
    /\ ex.pc = "loop"
    /\ ex.i = ex.n
    /\ ex' = [ex EXCEPT !.pc = "returned", !.output = <<ex.returnData>>]
    /\ UNCHANGED <<triggerVars, inv, cell, url>>

\* The execution has ended, with its output or with the NodeOperationError.
ExecEnd ==
    /\ ex.pc \in {"returned", "failed"}
    /\ ex' = ExIdle
    /\ UNCHANGED <<triggerVars, inv, cell, url>>

NextExecute ==
    \/ ExecStart
    \/ ExecItem
    \/ ExecResponse
    \/ ExecReturn
    \/ ExecEnd

SpecExecute == InitExecute /\ [][NextExecute]_vars

\* How many HTTP requests the execution has issued for input item i.
RequestsFor(i) == Cardinality({j \in 1..Len(ex.http) : ex.http[j] = i})

\* C19: execute issues at most one HTTP request per input item and never
\* retries: once the request for an item has failed no further request is
\* made for that item.
C19_AtMostOneRequestPerItem ==
    \A i \in 0..MaxItems : RequestsFor(i) <= 1

\* The request for item 0 failed, the error was recorded, and the execution
\* went on to the end without a second request for item 0.
C19_Witness ==
    /\ ex.pc = "returned"
    /\ ex.n = 2
    /\ ex.continueOnFail
    /\ Len(ex.returnData) >= 1
    /\ ex.returnData[1] = [kind |-> "error", item |-> 0]
    /\ ex.http = <<0, 1>>

----------------------------------------------------------------------------
(* The API base URL: getApiBaseUrl and the credential test's baseURL *)

MaxLen == 5

\* URLs are sequences of characters over a letter, a colon, a slash and a digit.
Alphabet == {"h", ":", "/", "7"}

Digits == {"7"}

ApiUrls == UNION {[1..n -> Alphabet] : n \in 0..MaxLen}

\* No base URL derived yet.
NotDerived == <<"?">>

Min(S) == CHOOSE p \in S : \A q \in S : p <= q

\* s.replace(/\/+$/, ''): the leftmost position from which only slashes
\* follow up to the end of the string is where the match starts.
ReplaceTrailingSlashes(s) ==
    LET starts == {p \in 1..Len(s) : \A j \in p..Len(s) : s[j] = "/"}
    IN  IF starts = {} THEN s ELSE SubSeq(s, 1, Min(starts) - 1)

\* s.replace(/\/\d+$/, ''): a slash followed by one or more digits up to
\* the end of the string.
ReplaceTrailingDigits(s) ==
    LET starts == {p \in 1..Len(s) - 1 :
                      /\ s[p] = "/"
                      /\ \A j \in p + 1..Len(s) : s[j] \in Digits}
    IN  IF starts = {} THEN s ELSE SubSeq(s, 1, Min(starts) - 1)

getApiBaseUrl(apiUrl) ==
    LET cleaned == ReplaceTrailingSlashes(apiUrl)
    IN  ReplaceTrailingDigits(cleaned)

\* Variant of the credential test's expression that only removes the
\* trailing slashes.
CredentialTestBaseURLKeepsTenant(apiUrl) == ReplaceTrailingSlashes(apiUrl)

\* The expression of the credential test request:
\* $credentials.apiUrl.replace(/\/+$/, "").replace(/\/\d+$/, "")
CredentialTestBaseURL(apiUrl) ==
    ReplaceTrailingDigits(ReplaceTrailingSlashes(apiUrl))

InitUrl ==
    /\ TriggerIdle
    /\ inv = Unused
    /\ cell = Unused
    /\ ex = Unused
    /\ \E a \in ApiUrls :
        url = [apiUrl |-> a, baseUrl |-> NotDerived, baseURL |-> NotDerived]

\* execute() derives the base URL from the credentials' apiUrl.
DeriveBaseUrl ==
    /\ url.baseUrl = NotDerived
    /\ url' = [url EXCEPT !.baseUrl = getApiBaseUrl(url.apiUrl)]
    /\ UNCHANGED <<triggerVars, inv, cell, ex>>

\* The credential test evaluates its baseURL expression.
TestCredential ==
    /\ url.baseURL = NotDerived
    /\ url' = [url EXCEPT !.baseURL = CredentialTestBaseURL(url.apiUrl)]
    /\ UNCHANGED <<triggerVars, inv, cell, ex>>

NextUrl ==
    \/ DeriveBaseUrl
    \/ TestCredential

SpecUrl == InitUrl /\ [][NextUrl]_vars

AllSlashes(s) == \A j \in 1..Len(s) : s[j] = "/"

AllDigits(s) == Len(s) > 0 /\ \A j \in 1..Len(s) : s[j] \in Digits

\* The origins o for which s is o, a slash, a numeric tenant id, and then
\* any number of slashes.
OriginsOf(s) ==
    {SubSeq(s, 1, k - 1) : k \in
        {k \in 1..Len(s) :
            /\ s[k] = "/"
            /\ \E e \in k + 1..Len(s) :
                /\ AllDigits(SubSeq(s, k + 1, e))
                /\ AllSlashes(SubSeq(s, e + 1, Len(s)))}}

\* The prefixes of s that s extends with slashes only and that do not
\* themselves end with a slash.
WithoutTrailingSlashes(s) ==
    {SubSeq(s, 1, k) : k \in
        {k \in 0..Len(s) :
            /\ k = 0 \/ s[k] # "/"
            /\ AllSlashes(SubSeq(s, k + 1, Len(s)))}}

\* C20: a URL of the form <origin>/<numeric tenant id> with any number of
\* trailing slashes is mapped to <origin>; a URL without a trailing numeric
\* segment is left unchanged apart from the removal of its trailing
\* slashes; and getApiBaseUrl and the credential test's baseURL expression
\* give the same result for every apiUrl.
C20_BaseUrlDerivation ==
    /\ url.baseUrl # NotDerived =>
          IF OriginsOf(url.apiUrl) # {}
          THEN url.baseUrl \in OriginsOf(url.apiUrl)
          ELSE url.baseUrl \in WithoutTrailingSlashes(url.apiUrl)
    /\ url.baseURL # NotDerived =>
          IF OriginsOf(url.apiUrl) # {}
          THEN url.baseURL \in OriginsOf(url.apiUrl)
          ELSE url.baseURL \in WithoutTrailingSlashes(url.apiUrl)
    /\ url.baseUrl # NotDerived /\ url.baseURL # NotDerived =>
          url.baseUrl = url.baseURL

\* A dashboard URL with a tenant id and two trailing slashes, after both
\* derivations.
C20_Witness ==
    /\ url.apiUrl = <<"h", "/", "7", "/", "/">>
    /\ url.baseUrl = <<"h">>
    /\ url.baseURL = <<"h">>

----------------------------------------------------------------------------
(* The direct body field and zero-length content *)

\* Strategies 1 and 2 left `body` without keys and strategy 3 has run.
DirectBodyReached ==
    /\ Len(hist) >= 3
    /\ \A i \in 1..2 : ~ObjectKeysThrows(hist[i]) /\ ObjectKeysLength(hist[i]) = 0

\* The text held by req.body when it is a string or a Buffer.
DirectText == IF req.body.kind = "buffer" THEN BufToString(req.body) ELSE req.body.str

\* C21: when strategies 1 and 2 yield nothing and req.body holds a string
\* or a Buffer with content, strategy 3 sets body to the decoded value when
\* the text is valid JSON and to { rawData: <text> } otherwise; a req.body
\* of any other type is ignored and the diagnostic record follows.
C21_DirectBodyDecodeOrWrap ==
    DirectBodyReached =>
        IF req.body.kind \in {"string", "buffer"}
        THEN Length(req.body) > 0 =>
                hist[3] = (IF DirectText \in JsonTexts
                           THEN JsonValue(DirectText)
                           ELSE Obj(<<Prop("rawData", Str(DirectText))>>))
        ELSE /\ hist[3] = hist[2]
             /\ pc \in {"classify", "done"} => body = Diagnostic(headers, req, query)

\* A JSON string in req.body is decoded by strategy 3 after the first two
\* strategies found nothing.
C21_Witness ==
    /\ pc = "done"
    /\ DirectBodyReached
    /\ Consulted("req.body")
    /\ req.body = Str(TxtMessage)
    /\ body = ObjMessage

\* { rawData: "" }
EmptyRawData == Obj(<<Prop("rawData", Str(""))>>)

\* req.body is a string or a Buffer of length zero.
DirectBodyZeroLength == req.body.kind \in {"string", "buffer"} /\ Length(req.body) = 0

\* Nothing was pre-parsed and neither rawBody nor req.body holds content:
\* each is absent or of length zero.
OnlyZeroLengthContent ==
    /\ PreParsedYieldedNothing
    /\ ~RawBodyHasBytes
    /\ ~Truthy(req.body) \/ DirectBodyZeroLength

\* C22: zero-length content is no body for every strategy: an empty
\* rawBody, an empty string in req.body and a zero-length Buffer in
\* req.body each lead to the diagnostic record, and the body is never
\* { rawData: "" }.
C22_ZeroLengthIsNoBody ==
    /\ body # EmptyRawData
    /\ (pc \in {"classify", "done"} /\ OnlyZeroLengthContent)
          => body = Diagnostic(headers, req, query)

\* The part of C22 about an empty rawBody and an empty string in req.body.
ZeroLengthOtherThanDirectBuffer ==
    (pc \in {"classify", "done"} /\ OnlyZeroLengthContent /\ req.body.kind # "buffer")
        => body = Diagnostic(headers, req, query)

----------------------------------------------------------------------------
(* Wati.execute: failures, pairing and unimplemented operations *)

\* The output items collected for input item i, in order.
OutputsOf(i) == SelectSeq(ex.returnData, LAMBDA o : o.item = i)

\* Input item j was processed: its request settled or its loop body raised.
Attempted(j) ==
    \/ \E k \in 1..Len(ex.settled) : ex.settled[k].item = j
    \/ \E k \in 1..Len(ex.caught) : ex.caught[k] = j

C23_Outcome ==
    ex.continueOnFail =>
        /\ ex.pc # "failed"
        /\ \A k \in 1..Len(ex.caught) :
              OutputsOf(ex.caught[k]) = <<[kind |-> "error", item |-> ex.caught[k]]>>
        /\ (ex.pc = "returned" /\ Implemented(ex.resource, ex.operation))
              => \A j \in 0..ex.n - 1 : Attempted(j)

C23_CatchStep ==
    (ex.continueOnFail /\ Len(ex'.caught) > Len(ex.caught))
        => /\ ex'.caught = Append(ex.caught, ex.i)
           /\ ex'.returnData = Append(ex.returnData, [kind |-> "error", item |-> ex.i])
           /\ ex'.i = ex.i + 1
           /\ ex'.pc = "loop"

\* C23: with continueOnFail enabled, a failure while processing item i adds
\* exactly one error item paired with i, the results collected before stay
\* as they are, and the loop goes on with item i + 1 so that every later
\* item is attempted.
C23_ContinueOnFail == []C23_Outcome /\ [][C23_CatchStep]_vars

\* Item 1 of three failed; items 0 and 2 gave their results.
C23_Witness ==
    /\ ex.pc = "returned"
    /\ ex.continueOnFail
    /\ ex.n = 3
    /\ ex.caught = <<1>>
    /\ ex.returnData = <<[kind |-> "json", item |-> 0], [kind |-> "error", item |-> 1],
                         [kind |-> "json", item |-> 2]>>

\* C24: with continueOnFail disabled, the first failure, at item i, ends the
\* execution with a NodeOperationError whose itemIndex is i: no request is
\* issued for an item after i and nothing is returned, the results of the
\* items before i included.
C24_AbortOnFirstFailure ==
    (ex.pc # "idle" /\ ~ex.continueOnFail /\ ex.caught # <<>>)
        => /\ ex.pc = "failed"
           /\ ex.caught = <<ex.itemIndex>>
           /\ \A k \in 1..Len(ex.http) : ex.http[k] <= ex.itemIndex
           /\ \A k \in 1..Len(ex.settled) : ex.settled[k].item <= ex.itemIndex
           /\ ex.output = <<>>

\* Item 0 gave a result, item 1 of three failed: the execution is over with
\* itemIndex 1, no request for item 2 and nothing returned.
C24_Witness ==
    /\ ex.pc = "failed"
    /\ ~ex.continueOnFail
    /\ ex.n = 3
    /\ ex.itemIndex = 1
    /\ ex.returnData = <<[kind |-> "json", item |-> 0]>>
    /\ ex.http = <<0, 1>>
    /\ ex.output = <<>>

C25_Outcome ==
    ex.pc # "idle" =>
        /\ \A k \in 1..Len(ex.returnData) : ex.returnData[k].item \in 0..ex.n - 1
        /\ \A k \in 1..Len(ex.returnData) - 1 :
              ex.returnData[k].item <= ex.returnData[k + 1].item
        /\ \A k \in 1..Len(ex.settled) :
              LET s == ex.settled[k]
              IN  /\ s.kind = "object" => OutputsOf(s.item) = ItemsFor("json", s.item, 1)
                  /\ s.kind = "binary" => OutputsOf(s.item) = ItemsFor("binary", s.item, 1)
                  /\ s.kind = "array" => OutputsOf(s.item) = ItemsFor("json", s.item, s.len)
        /\ ex.pc = "returned" => ex.output = <<ex.returnData>>

C25_PushStep ==
    ex'.pc # "idle" =>
        \E k \in 0..MaxArray + 1 :
            /\ Len(ex'.returnData) = Len(ex.returnData) + k
            /\ SubSeq(ex'.returnData, 1, Len(ex.returnData)) = ex.returnData
            /\ \A j \in Len(ex.returnData) + 1..Len(ex'.returnData) :
                  ex'.returnData[j].item = ex.i

\* C25: every output item is paired with the input item that produced it
\* and the output items are in non-decreasing order of that index; an item
\* whose response is one object, or a downloaded media file, gives exactly
\* one output item, one whose response is an array gives one per element.
C25_PairedItems == []C25_Outcome /\ [][C25_PushStep]_vars

\* Item 0 answered with an array of two elements, item 1 with an object.
C25_Witness ==
    /\ ex.pc = "returned"
    /\ ex.n = 2
    /\ ex.settled = <<[item |-> 0, kind |-> "array", len |-> 2],
                      [item |-> 1, kind |-> "object", len |-> 1]>>
    /\ ex.returnData = <<[kind |-> "json", item |-> 0], [kind |-> "json", item |-> 0],
                         [kind |-> "json", item |-> 1]>>

\* C26: for a (resource, operation) pair without a branch, no request is
\* issued for any item, no output item and no error is produced, and the
\* output collected stays as it was: the execution returns no items.
C26_UnimplementedPairIsSkipped ==
    (ex.pc # "idle" /\ ~Implemented(ex.resource, ex.operation))
        => /\ ex.http = <<>>
           /\ ex.returnData = <<>>
           /\ ex.caught = <<>>
           /\ ex.pc # "failed"
           /\ ex.pc = "returned" => ex.i = ex.n /\ ex.output = << <<>> >>

\* Three items went through with an operation of another resource.
C26_Witness ==
    /\ ex.pc = "returned"
    /\ ex.n = 3
    /\ ex.i = 3
    /\ ex.resource = "contact"
    /\ ex.operation = "getMedia"
    /\ ex.output = << <<>> >>

====
